---------------------------- MODULE Spec2Model ----------------------------
(***************************************************************************)
(* State-machine model of the AVR round-robin scheduler (scheduler.c,      *)
(* scheduler.h).  The variables are the file-scope statics of scheduler.c, *)
(* the global interrupt-enable bit of SREG, and the position of the one    *)
(* hardware thread: which code is executing and how far a task_delay call  *)
(* has got.  Every public function and the timer ISR is one action, except *)
(* task_delay, which is split at the points where the ISR can or cannot    *)
(* interleave (cli ... SREG = sreg ... scheduler_yield).                   *)
(***************************************************************************)
EXTENDS Integers, Sequences, FiniteSets, TLC

\* ------------------------------------------------------------------ bounds
\* Registry capacity.  The source sets MAX_TASKS to 8 (scheduler.h:8); the
\* model checks a smaller registry, so it is a bound here.
MAX_TASKS == 2
\* Largest argument passed to task_delay.
MaxDelay == 2
\* Caps on the uint32_t debug counters total_ticks and voluntary_yields: the
\* tick handler / scheduler_yield are not taken once the counter is there.
MaxTicks == 2
MaxYields == 2
\* Cap on the number of scheduler_reset_debug_stats calls, each of which
\* gives the two counters above their full range again.
MaxResets == 1

\* ------------------------------------------------------- program constants
TASK_READY == 0
TASK_RUNNING == 1
TASK_BLOCKED == 2
TASK_SUSPENDED == 3
TASK_STACK_SIZE == 128

TaskStates == {TASK_READY, TASK_RUNNING, TASK_BLOCKED, TASK_SUSPENDED}
Slots == 0 .. (MAX_TASKS - 1)

\* Task entry points handed to scheduler_add_task: NULL and one task body.
\* A function is known by its 16-bit code address.
AddrOf(f) ==
    CASE f = "NULL"      -> 0
      [] f = "task_fn"   -> 4660
      [] f = "task_exit" -> 9029
EntryArgs == {"NULL", "task_fn"}

VARIABLES
    tasks,              \* static task_t tasks[MAX_TASKS]
    task_count,         \* static uint8_t task_count
    current_task,       \* static uint8_t current_task
    scheduler_running,  \* static volatile uint8_t scheduler_running
    debug_stats,        \* static volatile scheduler_debug_t debug_stats
    sreg_i,             \* SREG bit 7: global interrupt enable
    exec,               \* whose code the CPU executes: "main", "body" (a task's
                        \* entry function), "exit" (task_exit's loop), "halt"
                        \* (start's while(1) with no tasks), "fault"
    exec_task,          \* for "body"/"exit": the task whose entry function runs
    pc,                 \* progress of the task_delay call in flight, or "idle"
    sreg,               \* task_delay's local copy of SREG (its I bit)
    retval,             \* value the call just made returned (0 for a void function)
    add_log,            \* ids returned by successful adds since the last init
    stats_out,          \* the caller's two uint32_t that scheduler_get_task_stats
                        \* is given pointers to
    exit_task,          \* the index task_exit's line 74 wrote Blocked to; -1
                        \* while no entry function has returned
    stats_resets        \* number of scheduler_reset_debug_stats calls so far

vars == <<tasks, task_count, current_task, scheduler_running, debug_stats,
          sreg_i, exec, exec_task, pc, sreg, retval, add_log, stats_out,
          exit_task, stats_resets>>

\* --------------------------------------------------------------- helpers
\* A task control block after memset(tasks, 0, sizeof(tasks)).
ZeroTask ==
    [stack_pointer |-> 0, stack |-> <<>>, state |-> 0, task_id |-> 0,
     delay_ticks |-> 0, runtime_ticks |-> 0, times_scheduled |-> 0]

ZeroStats == [total_ticks |-> 0, context_switches |-> 0, voluntary_yields |-> 0]

\* The caller's output variables as its declaration initialises them:
\* uint32_t runtime_ticks = 0; uint32_t times_scheduled = 0;
ZeroOut == [runtime_ticks |-> 0, times_scheduled |-> 0]

Lo(a) == a % 256
Hi(a) == (a \div 256) % 256

\* init_stack: the bytes written from stack_top downwards, in the order they
\* are written (so the last element is at the lowest address).
init_stack(task_function) ==
    <<Lo(AddrOf("task_exit")), Hi(AddrOf("task_exit")),
      Lo(AddrOf(task_function)), Hi(AddrOf(task_function)),
      0, 128>> \o [i \in 1 .. 31 |-> 0]

\* Index into task.stack of the byte init_stack's return value points at:
\* one below the last byte written.
InitialSP == (TASK_STACK_SIZE - 1) - Len(init_stack("task_fn"))

\* The byte the n-th pop (n >= 1) reads from an image laid out by init_stack:
\* pops read upwards from the lowest address, i.e. the image backwards.
Popped(image, n) == image[Len(image) + 1 - n]

\* scheduler_start's restore sequence on a stack image: pop r31..r2 (30
\* pops), pop r1, out SREG r1, pop r1, pop r0, ret (pops high then low byte).
RestoreContext(image) ==
    [SREG |-> Popped(image, 31),
     r1   |-> Popped(image, 32),
     r0   |-> Popped(image, 33),
     ret  |-> Popped(image, 34) * 256 + Popped(image, 35)]


\* ------------------------------------------------------------------ Init
\* The state scheduler_init leaves (it equals the zero-initialised statics),
\* on a CPU that comes out of reset with interrupts disabled, running main.
Init ==
    /\ tasks = [i \in Slots |-> ZeroTask]
    /\ task_count = 0
    /\ current_task = 0
    /\ scheduler_running = 0
    /\ debug_stats = ZeroStats
    /\ sreg_i = FALSE
    /\ exec = "main"
    /\ exec_task = 0
    /\ pc = "idle"
    /\ sreg = FALSE
    /\ retval = 0
    /\ add_log = <<>>
    /\ stats_out = ZeroOut
    /\ exit_task = -1
    /\ stats_resets = 0

\* Application code (main before start, the running entry function after it)
\* is between two calls and may make the next one.
CanCall == exec \in {"main", "body"} /\ pc = "idle"

\* ------------------------------------------------------- scheduler_init
\* Mutant: the memset of line 27 is missing.
scheduler_init_no_memset ==
    /\ CanCall
    /\ task_count' = 0
    /\ current_task' = 0
    /\ scheduler_running' = 0
    /\ debug_stats' = ZeroStats
    /\ add_log' = <<>>
    /\ UNCHANGED <<tasks, sreg_i, exec, exec_task, pc, sreg, stats_out,
                   exit_task, stats_resets>>
    /\ retval' = 0

scheduler_init ==
    /\ CanCall
    /\ task_count' = 0
    /\ current_task' = 0
    /\ scheduler_running' = 0
    /\ tasks' = [i \in Slots |-> ZeroTask]
    /\ debug_stats' = ZeroStats
    /\ add_log' = <<>>
    /\ UNCHANGED <<sreg_i, exec, exec_task, pc, sreg, stats_out, exit_task,
                   stats_resets>>
    /\ retval' = 0

\* --------------------------------------------------- scheduler_add_task
\* Mutant: the null check of line 84 is missing.
add_task_result_no_null_check(task_function) ==
    IF task_count >= MAX_TASKS THEN -1 ELSE task_count

\* Mutant: the capacity check of line 84 compares with > instead of >=.
add_task_result_off_by_one(task_function) ==
    IF task_count > MAX_TASKS \/ task_function = "NULL"
    THEN -1
    ELSE task_count

\* The value scheduler_add_task returns, as an int8_t.
add_task_result(task_function) ==
    IF task_count >= MAX_TASKS \/ task_function = "NULL"
    THEN -1
    ELSE task_count

\* Mutant: line 91 stores 0 instead of the slot index.
add_task_tcb_id_zero(old, task_id, task_function) ==
    [old EXCEPT !.task_id = 0,
                !.state = TASK_READY,
                !.delay_ticks = 0,
                !.stack = init_stack(task_function),
                !.stack_pointer = InitialSP]

\* The control block scheduler_add_task writes into slot task_id; the debug
\* counters of the slot are not touched.
add_task_tcb(old, task_id, task_function) ==
    [old EXCEPT !.task_id = task_id,
                !.state = TASK_READY,
                !.delay_ticks = 0,
                !.stack = init_stack(task_function),
                !.stack_pointer = InitialSP]

\* Mutant: line 99's task_count++ is missing.
add_task_count_not_incremented == task_count

\* task_count after a successful add.
add_task_count == task_count + 1

scheduler_add_task(task_function) ==
    /\ CanCall
    /\ retval' = add_task_result(task_function)
    /\ IF add_task_result(task_function) < 0
       THEN UNCHANGED <<tasks, task_count, add_log>>
       ELSE /\ tasks' = [tasks EXCEPT ![task_count] =
                            add_task_tcb(tasks[task_count], task_count, task_function)]
            /\ task_count' = add_task_count
            /\ add_log' = Append(add_log, add_task_result(task_function))
    /\ UNCHANGED <<current_task, scheduler_running, debug_stats, sreg_i,
                   exec, exec_task, pc, sreg, stats_out, exit_task,
                   stats_resets>>

\* ------------------------------------------------------ scheduler_start
\* Mutant: the empty-registry check of lines 106-109 is missing.
scheduler_start_no_empty_check ==
    /\ exec = "main" /\ pc = "idle"
    /\ current_task' = 0
    /\ tasks' = [tasks EXCEPT ![0].state = TASK_RUNNING]
    /\ scheduler_running' = 1
    /\ sreg_i' = TRUE
    /\ pc' = "start_restore"
    /\ UNCHANGED <<exec, task_count, debug_stats, exec_task, sreg, add_log,
                   stats_out, exit_task, stats_resets>>
    /\ retval' = 0

\* Lines 106-117: the empty-registry halt, or the bookkeeping and sei().
scheduler_start ==
    /\ exec = "main" /\ pc = "idle"
    /\ IF task_count = 0
       THEN /\ exec' = "halt"
            /\ UNCHANGED <<tasks, current_task, scheduler_running, sreg_i, pc>>
       ELSE /\ current_task' = 0
            /\ tasks' = [tasks EXCEPT ![0].state = TASK_RUNNING]
            /\ scheduler_running' = 1
            /\ sreg_i' = TRUE
            /\ pc' = "start_restore"
            /\ UNCHANGED exec
    /\ UNCHANGED <<task_count, debug_stats, exec_task, sreg, add_log,
                   stats_out, exit_task, stats_resets>>
    /\ retval' = 0

\* Lines 121-168: load SP from the current task and pop its stack image;
\* SREG takes the popped byte and ret enters the task's entry function.
scheduler_start_restore ==
    /\ pc = "start_restore"
    /\ LET ctx == RestoreContext(tasks[current_task].stack)
       IN  /\ sreg_i' = (ctx.SREG >= 128)
           /\ exec' = IF ctx.ret = AddrOf("task_fn") THEN "body" ELSE "fault"
    /\ exec_task' = current_task
    /\ pc' = "idle"
    /\ UNCHANGED <<tasks, task_count, current_task, scheduler_running,
                   debug_stats, sreg, retval, add_log, stats_out,
                   exit_task, stats_resets>>


\* ------------------------------------------------------ scheduler_yield
\* Mutant: the scan starts at slot 0 instead of after the current task, so
\* the lowest-numbered Ready or Running task always wins.
find_next_lowest(t, next_task, tasks_checked, cnt) ==
    LET ok == {i \in 0 .. (cnt - 1) :
                 t[i].state = TASK_READY \/ t[i].state = TASK_RUNNING}
    IN  IF ok = {}
        THEN next_task
        ELSE CHOOSE i \in ok : \A j \in ok : i <= j

\* The do-while scan of lines 229-237, entered with next_task and
\* tasks_checked as they stand before an iteration; cnt > 0.
RECURSIVE find_next(_, _, _, _)
find_next(t, next_task, tasks_checked, cnt) ==
    LET n == (next_task + 1) % cnt
        c == tasks_checked + 1
    IN  IF t[n].state = TASK_READY \/ t[n].state = TASK_RUNNING
        THEN n
        ELSE IF c < cnt THEN find_next(t, n, c, cnt) ELSE n

\* The slot the scan ends on.  With cnt = 0 the `% task_count` divides by
\* zero; rem is the value the build then leaves in next_task, and the loop
\* ends after that one iteration whatever the slot's state.
select_next(t, cur, cnt, rem) ==
    IF cnt = 0 THEN rem ELSE find_next(t, cur, 0, cnt)

\* Mutant: lines 247-249 are missing, the task switched away from keeps its
\* state.
switch_tasks_no_demote(t, cur, next_task) ==
    LET t1 == [t EXCEPT ![next_task].times_scheduled = @ + 1]
    IN  [t1 EXCEPT ![next_task].state = TASK_RUNNING]

\* Lines 240-256: the bookkeeping of a switch from cur to next_task.  No
\* stack pointer is saved or loaded.
switch_tasks(t, cur, next_task) ==
    LET t1 == [t EXCEPT ![next_task].times_scheduled = @ + 1]
        t2 == IF t1[cur].state = TASK_RUNNING
              THEN [t1 EXCEPT ![cur].state = TASK_READY]
              ELSE t1
    IN  [t2 EXCEPT ![next_task].state = TASK_RUNNING]

\* Whether scheduler_yield takes the branch of line 240.
yield_switches(t, cur, next_task) ==
    next_task # cur /\ t[next_task].state # TASK_BLOCKED

\* Mutant: line 222 is inside the switch branch, so only yields that switch
\* are counted.
yield_result_counts_switches_only(t, cur, cnt, dbg, rem) ==
    LET next_task == select_next(t, cur, cnt, rem)
    IN  IF yield_switches(t, cur, next_task)
        THEN [tasks |-> switch_tasks(t, cur, next_task),
              current_task |-> next_task,
              debug_stats |-> [dbg EXCEPT !.voluntary_yields = @ + 1,
                                          !.context_switches = @ + 1]]
        ELSE [tasks |-> t, current_task |-> cur, debug_stats |-> dbg]

\* One complete call of scheduler_yield: tasks, current_task and debug_stats
\* after it.
yield_result(t, cur, cnt, dbg, rem) ==
    LET next_task == select_next(t, cur, cnt, rem)
        d1 == [dbg EXCEPT !.voluntary_yields = @ + 1]
    IN  IF yield_switches(t, cur, next_task)
        THEN [tasks |-> switch_tasks(t, cur, next_task),
              current_task |-> next_task,
              debug_stats |-> [d1 EXCEPT !.context_switches = @ + 1]]
        ELSE [tasks |-> t, current_task |-> cur, debug_stats |-> d1]

\* A call of scheduler_yield from the executing code.  It returns to its
\* caller: exec and exec_task stay as they are.  With an empty registry the
\* division by zero either traps or leaves some slot index in next_task.
yield_call ==
    /\ debug_stats.voluntary_yields < MaxYields
    /\ \/ /\ task_count > 0
          /\ LET r == yield_result(tasks, current_task, task_count, debug_stats, 0)
             IN  /\ tasks' = r.tasks
                 /\ current_task' = r.current_task
                 /\ debug_stats' = r.debug_stats
          /\ UNCHANGED exec
       \/ /\ task_count = 0
          /\ \E rem \in Slots :
               LET r == yield_result(tasks, current_task, task_count, debug_stats, rem)
               IN  /\ tasks' = r.tasks
                   /\ current_task' = r.current_task
                   /\ debug_stats' = r.debug_stats
          /\ UNCHANGED exec
       \/ /\ task_count = 0
          /\ debug_stats' = [debug_stats EXCEPT !.voluntary_yields = @ + 1]
          /\ exec' = "fault"
          /\ UNCHANGED <<tasks, current_task>>
    /\ UNCHANGED <<task_count, scheduler_running, sreg_i, exec_task,
                   add_log, stats_out, exit_task, stats_resets>>
    /\ retval' = 0

scheduler_yield ==
    /\ CanCall
    /\ yield_call
    /\ UNCHANGED <<pc, sreg>>

\* ------------------------------------------------------------ task_exit
\* The entry function of the executing task returns: ret takes the address
\* init_stack left above the image, task_exit, whose first statement blocks
\* tasks[current_task].
task_exit ==
    /\ exec = "body" /\ pc = "idle"
    /\ tasks' = [tasks EXCEPT ![current_task].state = TASK_BLOCKED]
    /\ exec' = "exit"
    /\ exit_task' = current_task
    /\ UNCHANGED stats_resets
    /\ UNCHANGED <<task_count, current_task, scheduler_running, debug_stats,
                   sreg_i, exec_task, pc, sreg, add_log, stats_out>>
    /\ retval' = 0

\* One turn of task_exit's while(1) { scheduler_yield(); }.
task_exit_yield ==
    /\ exec = "exit"
    /\ yield_call
    /\ UNCHANGED <<pc, sreg>>

\* ----------------------------------------------------------- task_delay
DelayArgs == 0 .. MaxDelay

\* Mutant: the zero check of lines 261-263 is missing.
task_delay_no_zero_check(n) ==
    /\ CanCall
    /\ debug_stats.voluntary_yields < MaxYields
    /\ sreg' = sreg_i
    /\ sreg_i' = FALSE
    /\ tasks' = [tasks EXCEPT ![current_task].delay_ticks = n]
    /\ pc' = "delay_set"
    /\ retval' = 0
    /\ UNCHANGED <<task_count, current_task, scheduler_running,
                   debug_stats, exec, exec_task, add_log, stats_out,
                   exit_task, stats_resets>>

\* Mutant: the cli() of line 267 is missing.
task_delay_no_cli(n) ==
    /\ CanCall
    /\ IF n = 0
       THEN UNCHANGED <<tasks, pc, sreg, sreg_i>>
       ELSE /\ debug_stats.voluntary_yields < MaxYields
            /\ sreg' = sreg_i
            /\ UNCHANGED sreg_i
            /\ tasks' = [tasks EXCEPT ![current_task].delay_ticks = n]
            /\ pc' = "delay_set"
    /\ retval' = 0
    /\ UNCHANGED <<task_count, current_task, scheduler_running,
                   debug_stats, exec, exec_task, add_log, stats_out,
                   exit_task, stats_resets>>

\* Lines 261-270: the zero check, sreg = SREG, cli(), and the write of
\* tasks[current_task].delay_ticks.
task_delay(n) ==
    /\ CanCall
    /\ IF n = 0
       THEN UNCHANGED <<tasks, pc, sreg, sreg_i>>
       ELSE /\ debug_stats.voluntary_yields < MaxYields
            /\ sreg' = sreg_i
            /\ sreg_i' = FALSE
            /\ tasks' = [tasks EXCEPT ![current_task].delay_ticks = n]
            /\ pc' = "delay_set"
    /\ retval' = 0
    /\ UNCHANGED <<task_count, current_task, scheduler_running,
                   debug_stats, exec, exec_task, add_log, stats_out,
                   exit_task, stats_resets>>

\* Lines 271-274: tasks[current_task].state = TASK_BLOCKED; SREG = sreg.
task_delay_block ==
    /\ pc = "delay_set"
    /\ tasks' = [tasks EXCEPT ![current_task].state = TASK_BLOCKED]
    /\ sreg_i' = sreg
    /\ sreg' = FALSE
    /\ pc' = "delay_yield"
    /\ UNCHANGED <<task_count, current_task, scheduler_running, debug_stats,
                   exec, exec_task, retval, add_log, stats_out, exit_task,
                   stats_resets>>

\* Line 277 and the return: scheduler_yield(), then back in the caller.
task_delay_yield ==
    /\ pc = "delay_yield"
    /\ yield_call
    /\ pc' = "idle"
    /\ UNCHANGED sreg


\* ------------------------------------------------ ISR(TIMER0_COMPA_vect)
\* Mutant: the wake-up test of line 197 fires one tick early.
tick_delay_early(task) ==
    IF task.delay_ticks > 0
    THEN LET d == task.delay_ticks - 1
         IN  [task EXCEPT !.delay_ticks = d,
                          !.state = IF d <= 1 /\ task.state = TASK_BLOCKED
                                    THEN TASK_READY
                                    ELSE @]
    ELSE task

\* Mutant: the handler also wakes a Blocked task that has no countdown.
tick_delay_wakes_parked(task) ==
    IF task.delay_ticks > 0
    THEN LET d == task.delay_ticks - 1
         IN  [task EXCEPT !.delay_ticks = d,
                          !.state = IF d = 0 /\ task.state = TASK_BLOCKED
                                    THEN TASK_READY
                                    ELSE @]
    ELSE IF task.state = TASK_BLOCKED
         THEN [task EXCEPT !.state = TASK_READY]
         ELSE task

\* Mutant: an expired countdown makes the task Ready whatever its state.
tick_delay_wakes_any(task) ==
    IF task.delay_ticks > 0
    THEN LET d == task.delay_ticks - 1
         IN  [task EXCEPT !.delay_ticks = d,
                          !.state = IF d = 0 THEN TASK_READY ELSE @]
    ELSE task

\* Lines 193-201 for one slot: the countdown and the wake-up.
tick_delay(task) ==
    IF task.delay_ticks > 0
    THEN LET d == task.delay_ticks - 1
         IN  [task EXCEPT !.delay_ticks = d,
                          !.state = IF d = 0 /\ task.state = TASK_BLOCKED
                                    THEN TASK_READY
                                    ELSE @]
    ELSE task

\* Lines 186-189 for one slot: runtime accounting of the current task.
tick_runtime(task, i) ==
    IF i = current_task /\ task.state = TASK_RUNNING
    THEN [task EXCEPT !.runtime_ticks = @ + 1]
    ELSE task

\* The whole handler on the task array.
tick_tasks(t) ==
    [i \in Slots |-> IF i < task_count
                     THEN tick_delay(tick_runtime(t[i], i))
                     ELSE tick_runtime(t[i], i)]

\* Mutant: the guard of lines 178-180 is missing.
timer0_compare_isr_no_guard ==
    /\ sreg_i
    /\ exec # "fault"
    /\ debug_stats.total_ticks < MaxTicks
    /\ debug_stats' = [debug_stats EXCEPT !.total_ticks = @ + 1]
    /\ tasks' = tick_tasks(tasks)
    /\ UNCHANGED <<task_count, current_task, scheduler_running, sreg_i, exec,
                   exec_task, pc, sreg, retval, add_log, stats_out,
                   exit_task, stats_resets>>

\* The compare-match interrupt is taken only while SREG.I is set; the
\* hardware clears I for the handler and reti sets it again.
timer0_compare_isr ==
    /\ sreg_i
    /\ exec # "fault"
    /\ IF scheduler_running = 0 \/ task_count = 0
       THEN UNCHANGED <<tasks, debug_stats>>
       ELSE /\ debug_stats.total_ticks < MaxTicks
            /\ debug_stats' = [debug_stats EXCEPT !.total_ticks = @ + 1]
            /\ tasks' = tick_tasks(tasks)
    /\ UNCHANGED <<task_count, current_task, scheduler_running, sreg_i, exec,
                   exec_task, pc, sreg, retval, add_log, stats_out,
                   exit_task, stats_resets>>

\* ------------------------------------- suspend / resume / reset / sei
\* Task ids passed by callers: every slot index and one past the array.
IdArgs == 0 .. MAX_TASKS

\* Mutant: only a Ready task is suspended.
scheduler_suspend_task_ready_only(task_id) ==
    /\ CanCall
    /\ IF task_id < task_count /\ tasks[task_id].state = TASK_READY
       THEN tasks' = [tasks EXCEPT ![task_id].state = TASK_SUSPENDED]
       ELSE UNCHANGED tasks
    /\ UNCHANGED <<task_count, current_task, scheduler_running, debug_stats,
                   sreg_i, exec, exec_task, pc, sreg, add_log, stats_out,
                   exit_task, stats_resets>>
    /\ retval' = 0

scheduler_suspend_task(task_id) ==
    /\ CanCall
    /\ IF task_id < task_count
       THEN tasks' = [tasks EXCEPT ![task_id].state = TASK_SUSPENDED]
       ELSE UNCHANGED tasks
    /\ UNCHANGED <<task_count, current_task, scheduler_running, debug_stats,
                   sreg_i, exec, exec_task, pc, sreg, add_log, stats_out,
                   exit_task, stats_resets>>
    /\ retval' = 0

\* Mutant: the state test of line 213 is missing.
scheduler_resume_task_any_state(task_id) ==
    /\ CanCall
    /\ IF task_id < task_count
       THEN tasks' = [tasks EXCEPT ![task_id].state = TASK_READY]
       ELSE UNCHANGED tasks
    /\ UNCHANGED <<task_count, current_task, scheduler_running, debug_stats,
                   sreg_i, exec, exec_task, pc, sreg, add_log, stats_out,
                   exit_task, stats_resets>>
    /\ retval' = 0

scheduler_resume_task(task_id) ==
    /\ CanCall
    /\ IF task_id < task_count /\ tasks[task_id].state = TASK_SUSPENDED
       THEN tasks' = [tasks EXCEPT ![task_id].state = TASK_READY]
       ELSE UNCHANGED tasks
    /\ UNCHANGED <<task_count, current_task, scheduler_running, debug_stats,
                   sreg_i, exec, exec_task, pc, sreg, add_log, stats_out,
                   exit_task, stats_resets>>
    /\ retval' = 0

\* Mutant: the range check of lines 298-300 is missing.
get_task_stats_result_unchecked(task_id) == 0

\* The value scheduler_get_task_stats returns.
get_task_stats_result(task_id) == IF task_id >= task_count THEN -1 ELSE 0

\* The two pointer arguments: NULL, or the address of the caller's variable.
PtrArgs == {"NULL", "out"}

\* Lines 297-311.  The function writes nothing but *runtime_ticks and
\* *times_scheduled.  The copy of a counter is taken as one read.
scheduler_get_task_stats(task_id, runtime_ticks, times_scheduled) ==
    /\ CanCall
    /\ retval' = get_task_stats_result(task_id)
    /\ UNCHANGED <<exit_task, stats_resets>>
    /\ IF get_task_stats_result(task_id) < 0
       THEN UNCHANGED stats_out
       ELSE stats_out' =
              [runtime_ticks |->
                 IF runtime_ticks # "NULL"
                 THEN tasks[task_id].runtime_ticks
                 ELSE stats_out.runtime_ticks,
               times_scheduled |->
                 IF times_scheduled # "NULL"
                 THEN tasks[task_id].times_scheduled
                 ELSE stats_out.times_scheduled]
    /\ UNCHANGED <<tasks, task_count, current_task, scheduler_running,
                   debug_stats, sreg_i, exec, exec_task, pc, sreg, add_log>>

\* Mutant: the loop of lines 322-325 is missing.
scheduler_reset_debug_stats_globals_only ==
    /\ CanCall
    /\ stats_resets < MaxResets
    /\ stats_resets' = stats_resets + 1
    /\ debug_stats' = ZeroStats
    /\ UNCHANGED <<tasks, task_count, current_task, scheduler_running, sreg_i,
                   exec, exec_task, pc, sreg, add_log, stats_out, exit_task>>
    /\ retval' = 0

\* The whole function runs between cli() and SREG = sreg, so no tick
\* interleaves and SREG is as before afterwards.
scheduler_reset_debug_stats ==
    /\ CanCall
    /\ stats_resets < MaxResets
    /\ stats_resets' = stats_resets + 1
    /\ debug_stats' = ZeroStats
    /\ tasks' = [i \in Slots |-> IF i < task_count
                                 THEN [tasks[i] EXCEPT !.runtime_ticks = 0,
                                                       !.times_scheduled = 0]
                                 ELSE tasks[i]]
    /\ UNCHANGED <<task_count, current_task, scheduler_running, sreg_i, exec,
                   exec_task, pc, sreg, add_log, stats_out, exit_task>>
    /\ retval' = 0

\* Application code executes sei(); scheduler.c itself enables interrupts
\* only in scheduler_start, before the restore sequence reloads SREG.
sei ==
    /\ CanCall
    /\ ~sreg_i
    /\ sreg_i' = TRUE
    /\ UNCHANGED <<tasks, task_count, current_task, scheduler_running,
                   debug_stats, exec, exec_task, pc, sreg, add_log,
                   stats_out, exit_task, stats_resets>>
    /\ retval' = 0

\* ------------------------------------------------------------------ Next
Next ==
    \/ scheduler_init
    \/ \E f \in EntryArgs : scheduler_add_task(f)
    \/ scheduler_start
    \/ scheduler_start_restore
    \/ scheduler_yield
    \/ task_exit
    \/ task_exit_yield
    \/ \E n \in DelayArgs : task_delay(n)
    \/ task_delay_block
    \/ task_delay_yield
    \/ timer0_compare_isr
    \/ \E id \in IdArgs : scheduler_suspend_task(id)
    \/ \E id \in IdArgs : scheduler_resume_task(id)
    \/ sei

Spec == Init /\ [][Next]_vars

\* The same with scheduler_reset_debug_stats, which writes only the debug
\* counters (no scheduling decision reads them).
NextStats == Next \/ scheduler_reset_debug_stats

SpecStats == Init /\ [][NextStats]_vars


\* The processor does not stop: whatever is executing (main, the entry
\* function, task_exit's loop, the restore sequence) goes on to its next
\* step, and the timer keeps raising its interrupt.
SpecLive == Init /\ [][Next]_vars /\ WF_vars(Next)

\* The same as Next with the read accessor scheduler_get_task_stats, whose
\* outputs are the only thing it writes.
NextObserve ==
    \/ Next
    \/ \E id \in IdArgs : \E rp \in PtrArgs : \E tp \in PtrArgs :
         scheduler_get_task_stats(id, rp, tp)

SpecObserve == Init /\ [][NextObserve]_vars


\* ================================================================ claims
Registered == 0 .. (task_count - 1)
Eligible(task) == task.state = TASK_READY \/ task.state = TASK_RUNNING
RunningTasks == {i \in Registered : tasks[i].state = TASK_RUNNING}

\* current_task after each of n consecutive scheduler_yield calls made from
\* (t, cur) with cnt registered tasks and nothing else in between.
RECURSIVE YieldCurrents(_, _, _, _)
YieldCurrents(t, cur, cnt, n) ==
    IF n = 0
    THEN <<>>
    ELSE LET r == yield_result(t, cur, cnt, ZeroStats, 0)
         IN  <<r.current_task>> \o YieldCurrents(r.tasks, r.current_task, cnt, n - 1)

C2_ExecutingIsCurrent ==
    (scheduler_running = 1 /\ exec = "body") => exec_task = current_task

\* C3: task_delay(n), n > 0, called by the executing task returns to it only
\* with that task's delay_ticks counted down to zero.
C3_DelayReturnsAfterExpiry ==
    [][(exec = "body" /\ scheduler_running = 1
        /\ pc = "delay_yield" /\ pc' = "idle")
       => tasks'[exec_task].delay_ticks = 0]_vars

\* A step that begins a new countdown on slot i or takes slot i out of the
\* claim's scope: suspend, resume, init, or a task_delay call.
C4_Disturbed ==
    \/ scheduler_init
    \/ \E id \in IdArgs : scheduler_suspend_task(id)
    \/ \E id \in IdArgs : scheduler_resume_task(id)
    \/ \E n \in DelayArgs : task_delay(n)

C5_AtMostOneRunning == Cardinality(RunningTasks) <= 1

\* C6: once scheduler_start has succeeded, exactly one task is Running.
C6_ExactlyOneRunning ==
    scheduler_running = 1 => Cardinality(RunningTasks) = 1

\* C7: a Suspended task stays out of Ready and Running, and does not become
\* current, on every step other than a resume of it (or an init).
C7_SuspendDominance ==
    [][\A i \in Registered :
         (tasks[i].state = TASK_SUSPENDED
          /\ ~scheduler_resume_task(i) /\ ~scheduler_init)
         => /\ tasks'[i].state # TASK_READY
            /\ tasks'[i].state # TASK_RUNNING
            /\ (current_task' = i => current_task = i)]_vars

\* C8: since the last init the successful adds returned 0, 1, 2, ... in
\* order, one per registered task; an add of a non-null entry returns
\* task_count and registers one more task while there is room, and returns a
\* negative value with task_count still MAX_TASKS when the registry is full.
C8_AddReturnsIdsInOrder ==
    /\ [](add_log = [i \in 1 .. task_count |-> i - 1])
    /\ [][\A f \in EntryArgs \ {"NULL"} :
            scheduler_add_task(f) =>
               IF task_count < MAX_TASKS
               THEN retval' = task_count /\ task_count' = task_count + 1
               ELSE retval' < 0 /\ task_count' = MAX_TASKS]_vars

\* A full registry whose last add was refused.
C8_Witness ==
    /\ task_count = MAX_TASKS
    /\ add_log = [i \in 1 .. MAX_TASKS |-> i - 1]
    /\ retval = -1

\* C9: an add of the null entry returns a negative value and leaves
\* task_count as it was, whatever the state.
C9_AddNullRejected ==
    [][scheduler_add_task("NULL")
       => (retval' < 0 /\ task_count' = task_count)]_vars

\* A null add was refused on a started scheduler whose registry is neither
\* empty nor full.
C9_Witness ==
    /\ retval = -1
    /\ task_count > 0 /\ task_count < MAX_TASKS
    /\ scheduler_running = 1

\* C10: task_count never exceeds MAX_TASKS, and an add that fails (registry
\* full or null entry) changes no part of the scheduler state.
C10_FailedAddChangesNothing ==
    /\ [](task_count <= MAX_TASKS)
    /\ [][\A f \in EntryArgs :
            (scheduler_add_task(f) /\ (task_count >= MAX_TASKS \/ f = "NULL"))
            => UNCHANGED <<tasks, task_count, current_task, scheduler_running,
                           debug_stats>>]_vars

\* A refused add of a non-null entry on a full registry of a started
\* scheduler with a delay pending.
C10_Witness ==
    /\ retval = -1
    /\ task_count = MAX_TASKS
    /\ scheduler_running = 1
    /\ \E i \in Registered : tasks[i].delay_ticks > 0

\* C11: scheduler_init, in whatever state it is called, leaves task_count,
\* current_task and scheduler_running at 0, the three debug counters at 0,
\* and every control block with state, delay_ticks, runtime_ticks and
\* times_scheduled cleared.
C11_InitClearsEverything ==
    [][scheduler_init =>
         /\ task_count' = 0
         /\ current_task' = 0
         /\ scheduler_running' = 0
         /\ debug_stats'.total_ticks = 0
         /\ debug_stats'.context_switches = 0
         /\ debug_stats'.voluntary_yields = 0
         /\ \A i \in Slots :
              /\ tasks'[i].state = 0
              /\ tasks'[i].delay_ticks = 0
              /\ tasks'[i].runtime_ticks = 0
              /\ tasks'[i].times_scheduled = 0]_vars

\* A task's entry function (so start has succeeded) has called
\* scheduler_init: everything is cleared and the scheduler is stopped.
C11_Witness ==
    /\ exec = "body"
    /\ scheduler_running = 0
    /\ task_count = 0
    /\ current_task = 0
    /\ debug_stats = ZeroStats
    /\ tasks = [i \in Slots |-> ZeroTask]

\* C12: task_delay(0) changes no control block, not current_task, not the
\* debug counters, and does not go on to scheduler_yield.
C12_DelayZeroNoChange ==
    [][task_delay(0) =>
         /\ UNCHANGED <<tasks, task_count, current_task, scheduler_running,
                        debug_stats, sreg_i>>
         /\ pc' = "idle"]_vars

\* A started task that is Running with a switch already counted is between
\* two calls, the last of which returned nothing: the state task_delay(0) is
\* called in and leaves.
C12_Witness ==
    /\ exec = "body" /\ pc = "idle"
    /\ scheduler_running = 1
    /\ retval = 0
    /\ tasks[current_task].state = TASK_RUNNING
    /\ tasks[current_task].delay_ticks = 0
    /\ debug_stats.context_switches = 1
    /\ debug_stats.voluntary_yields = 1

\* A complete call of scheduler_yield, whoever makes it: application code,
\* the tail of task_delay, or task_exit's loop.
AnyYield == scheduler_yield \/ task_delay_yield \/ task_exit_yield

\* C13: on a started scheduler with exactly two registered tasks, both Ready
\* or Running, a scheduler_yield makes the other task current and Running,
\* leaves the previous one Ready, and adds exactly 1 to context_switches and
\* to voluntary_yields.
C13_TwoTaskYield ==
    [][(/\ scheduler_running = 1
        /\ task_count = 2
        /\ \A i \in Registered : Eligible(tasks[i])
        /\ AnyYield)
       => /\ current_task' = 1 - current_task
          /\ tasks'[current_task'].state = TASK_RUNNING
          /\ tasks'[current_task].state = TASK_READY
          /\ debug_stats'.context_switches = debug_stats.context_switches + 1
          /\ debug_stats'.voluntary_yields = debug_stats.voluntary_yields + 1
          /\ debug_stats'.total_ticks = debug_stats.total_ticks]_vars

\* init, two adds, start, and two yields by the started task with no tick,
\* delay or suspend in between: current is back at 0 with two switches and
\* two yields counted, each task scheduled once.
C13_Witness ==
    /\ exec = "body" /\ pc = "idle"
    /\ scheduler_running = 1
    /\ task_count = 2
    /\ current_task = 0
    /\ tasks[0].state = TASK_RUNNING /\ tasks[1].state = TASK_READY
    /\ tasks[0].times_scheduled = 1 /\ tasks[1].times_scheduled = 1
    /\ debug_stats = [total_ticks |-> 0, context_switches |-> 2,
                      voluntary_yields |-> 2]

\* C14: with a single registered task, a scheduler_yield leaves current_task,
\* the task's control block and context_switches unchanged and adds exactly
\* 1 to voluntary_yields.
C14_SingleTaskYield ==
    [][(task_count = 1 /\ AnyYield)
       => /\ current_task' = current_task
          /\ tasks' = tasks
          /\ debug_stats'.context_switches = debug_stats.context_switches
          /\ debug_stats'.voluntary_yields = debug_stats.voluntary_yields + 1]_vars

\* C15: when the entry function of the current task returns, the exit
\* handler sets that task Blocked; and while the exit handler loops, a
\* Blocked task with no countdown pending (it returned without a delay) stays
\* Blocked on every tick and every yield, and does not become current again
\* once another task is.
C15_ExitedTaskStaysParked ==
    [][/\ (task_exit /\ exec_task = current_task)
          => /\ exec' = "exit"
             /\ tasks'[exec_task].state = TASK_BLOCKED
             /\ tasks'[exec_task].delay_ticks = tasks[exec_task].delay_ticks
       /\ \A i \in Registered :
            (/\ exec = "exit"
             /\ tasks[i].state = TASK_BLOCKED
             /\ tasks[i].delay_ticks = 0)
            => /\ exec' = "exit"
               /\ tasks'[i].state = TASK_BLOCKED
               /\ tasks'[i].delay_ticks = 0
               /\ (current_task' = i => current_task = i)]_vars

\* Task 0 enabled interrupts and returned; the exit handler's yields have
\* moved current to task 1 and MaxTicks ticks have run, none while task 0 was
\* Running: task 0 is still Blocked.
C15_Witness ==
    /\ exec = "exit" /\ exec_task = 0
    /\ scheduler_running = 1
    /\ task_count = 2
    /\ current_task = 1
    /\ tasks[0].state = TASK_BLOCKED /\ tasks[0].delay_ticks = 0
    /\ tasks[0].runtime_ticks = 0
    /\ tasks[1].state = TASK_RUNNING
    /\ tasks[1].runtime_ticks >= 1
    /\ debug_stats.total_ticks = MaxTicks
    /\ debug_stats.voluntary_yields = MaxYields

\* C16: on a started scheduler with two or more registered tasks whose entry
\* function keeps running (no init, no return, no fault), the entry function
\* of every registered task eventually executes.
C16_EveryTaskStarts ==
    \A i \in Slots :
        (scheduler_running = 1 /\ exec = "body" /\ task_count >= 2
         /\ i < task_count)
        ~> \/ (exec = "body" /\ exec_task = i)
           \/ scheduler_running = 0
           \/ exec # "body"

\* C17: scheduler_yield called with no task registered returns to its caller
\* without a fault and leaves current_task and every control block as they
\* were.
C17_YieldNoTasks ==
    [][(task_count = 0 /\ scheduler_yield)
       => /\ exec' = exec
          /\ current_task' = current_task
          /\ tasks' = tasks]_vars

\* C18: scheduler_start with no task registered does not return and changes
\* nothing; from then on task_count, current_task, scheduler_running, the
\* control blocks and the debug counters never change, whatever ticks arrive.
C18_StartEmptyHalts ==
    [][/\ (scheduler_start /\ task_count = 0)
          => /\ exec' = "halt"
             /\ scheduler_running' = 0
             /\ UNCHANGED <<tasks, task_count, current_task,
                            scheduler_running, debug_stats>>
       /\ exec = "halt"
          => /\ exec' = "halt"
             /\ scheduler_running' = 0
             /\ UNCHANGED <<tasks, task_count, current_task,
                            scheduler_running, debug_stats>>]_vars

\* main enabled interrupts and called scheduler_start on an empty registry:
\* it spins in the while(1) of line 108 with the timer interrupt arriving.
C18_Witness ==
    /\ exec = "halt"
    /\ sreg_i
    /\ task_count = 0
    /\ scheduler_running = 0

\* C19: scheduler_start with a task registered sets current_task = 0,
\* tasks[0] Running and scheduler_running, enables interrupts, and its
\* restore sequence enters the entry function of task 0, which starts with
\* interrupts enabled as its synthesized context says.
C19_StartRunsTaskZero ==
    [][/\ (scheduler_start /\ task_count > 0)
          => /\ current_task' = 0
             /\ tasks'[0].state = TASK_RUNNING
             /\ scheduler_running' = 1
             /\ sreg_i'
             /\ exec' = "main" /\ pc' = "start_restore"
       /\ scheduler_start_restore
          => /\ exec' = "body" /\ exec_task' = 0
             /\ sreg_i'
             /\ UNCHANGED <<current_task, scheduler_running>>]_vars

\* C20: scheduler_suspend_task(id) with id < task_count sets that task's
\* state to Suspended whatever it was and changes nothing else; with
\* id >= task_count it changes nothing.
C20_SuspendSetsState ==
    [][\A id \in IdArgs :
         scheduler_suspend_task(id) =>
            /\ UNCHANGED <<task_count, current_task, scheduler_running,
                           debug_stats, sreg_i, exec, exec_task, pc>>
            /\ IF id < task_count
               THEN tasks' = [tasks EXCEPT ![id].state = TASK_SUSPENDED]
               ELSE tasks' = tasks]_vars

\* On a started scheduler a task that was Blocked in a delay (its countdown
\* is still pending) and the other, current task are both Suspended.
C20_Witness ==
    /\ scheduler_running = 1
    /\ task_count = 2
    /\ tasks[0].state = TASK_SUSPENDED /\ tasks[0].delay_ticks > 0
    /\ tasks[1].state = TASK_SUSPENDED /\ current_task = 1

\* C21: scheduler_resume_task(id) sets the task Ready exactly when
\* id < task_count and the task is Suspended; for a Ready, Running or Blocked
\* task, or id >= task_count, it changes nothing; delay_ticks, current_task
\* and the counters are never changed.
C21_ResumeOnlySuspended ==
    [][\A id \in IdArgs :
         scheduler_resume_task(id) =>
            /\ UNCHANGED <<task_count, current_task, scheduler_running,
                           debug_stats, sreg_i, exec, exec_task, pc>>
            /\ IF id < task_count /\ tasks[id].state = TASK_SUSPENDED
               THEN tasks' = [tasks EXCEPT ![id].state = TASK_READY]
               ELSE tasks' = tasks]_vars

\* The only task of a started scheduler called task_delay, was suspended and
\* resumed before any tick: it is Ready with its countdown untouched.
C21_Witness ==
    /\ scheduler_running = 1
    /\ exec = "body" /\ pc = "idle"
    /\ task_count = 1
    /\ current_task = 0
    /\ tasks[0].state = TASK_READY
    /\ tasks[0].delay_ticks = MaxDelay
    /\ debug_stats = [total_ticks |-> 0, context_switches |-> 0,
                      voluntary_yields |-> 1]

\* C22: scheduler_get_task_stats(id, ...) returns -1 and writes neither
\* output when id >= task_count; when id < task_count it returns 0 and each
\* output it was given holds the task's runtime_ticks / times_scheduled; it
\* changes no scheduler state; and a task just added reads as 0 and 0.
C22_GetTaskStats ==
    [][/\ \A id \in IdArgs : \A rp \in PtrArgs : \A tp \in PtrArgs :
            scheduler_get_task_stats(id, rp, tp) =>
               /\ UNCHANGED <<tasks, task_count, current_task,
                              scheduler_running, debug_stats>>
               /\ IF id >= task_count
                  THEN retval' = -1 /\ stats_out' = stats_out
                  ELSE /\ retval' = 0
                       /\ rp = "out" =>
                            stats_out'.runtime_ticks = tasks[id].runtime_ticks
                       /\ tp = "out" =>
                            stats_out'.times_scheduled = tasks[id].times_scheduled
       /\ \A f \in EntryArgs :
            (scheduler_add_task(f) /\ retval' >= 0) =>
               /\ tasks'[retval'].runtime_ticks = 0
               /\ tasks'[retval'].times_scheduled = 0]_vars

\* C23: on a started scheduler a task that is waiting in a delay (Blocked, or
\* Suspended meanwhile) and whose countdown has not run out after a step is
\* neither Ready nor Running after that step and has not become current,
\* whatever the step: a tick, a yield, a suspend or a resume.
C23_NoEarlyWake ==
    [][\A i \in Registered :
         (/\ scheduler_running = 1
          /\ tasks[i].state \in {TASK_BLOCKED, TASK_SUSPENDED}
          /\ tasks[i].delay_ticks > 0
          /\ ~scheduler_init
          /\ tasks'[i].delay_ticks > 0)
         => /\ tasks'[i].state \in {TASK_BLOCKED, TASK_SUSPENDED}
            /\ (current_task' = i => current_task = i)]_vars

\* C24: the task the exit handler has set Blocked is not Ready and not
\* Running after any later step (tick, yield, expiry of a delay counter it
\* still carried), short of scheduler_init.
C24_ExitIsTerminal ==
    [][(exit_task # -1 /\ ~scheduler_init)
       => /\ tasks'[exit_task].state # TASK_READY
          /\ tasks'[exit_task].state # TASK_RUNNING]_vars

\* C25: when the executing entry function returns, the exit handler's first
\* statement sets the state of that function's own task to Blocked and
\* changes no other control block.
C25_ExitBlocksReturningTask ==
    [][task_exit
       => tasks' = [tasks EXCEPT ![exec_task].state = TASK_BLOCKED]]_vars

\* C26: outside the protected section of task_delay (between its two
\* writes), every registered task with delay_ticks > 0 is Blocked.
C26_DelayImpliesBlocked ==
    pc # "delay_set" =>
        \A i \in Registered :
            tasks[i].delay_ticks > 0 => tasks[i].state = TASK_BLOCKED

\* C27: when the executing, current task is Suspended and calls
\* scheduler_yield on a started scheduler, it does not go on executing
\* after the call; and if another registered task is Ready, that task is
\* current afterwards and the caller is still Suspended.
C27_SuspendedStopsAtYield ==
    [][(/\ scheduler_running = 1
        /\ exec = "body" /\ exec_task = current_task
        /\ current_task \in Registered
        /\ tasks[current_task].state = TASK_SUSPENDED
        /\ scheduler_yield)
       => /\ ~(exec' = "body" /\ exec_task' = current_task)
          /\ (\E j \in Registered : tasks[j].state = TASK_READY)
             => /\ current_task' # current_task
                /\ tasks'[current_task'].state = TASK_RUNNING
                /\ tasks'[current_task].state = TASK_SUSPENDED]_vars

\* C28: no missed wakeup, as the two steps that carry it.  On a started
\* scheduler a tick counts a waiting task's delay_ticks down by one and makes
\* the task Ready when it reaches 0; and a scheduler_yield whose scan stops
\* on a Ready task (the first eligible one after current_task, possibly
\* current_task itself when it was woken while current) leaves that task
\* current with state Running.
C28_NoMissedWakeup ==
    [][/\ \A i \in Registered :
            (/\ scheduler_running = 1
             /\ tasks[i].state = TASK_BLOCKED
             /\ tasks[i].delay_ticks > 0
             /\ debug_stats'.total_ticks = debug_stats.total_ticks + 1)
            => /\ tasks'[i].delay_ticks = tasks[i].delay_ticks - 1
               /\ tasks'[i].delay_ticks = 0 => tasks'[i].state = TASK_READY
       /\ \A i \in Registered :
            (/\ scheduler_running = 1
             /\ current_task \in Registered
             /\ AnyYield
             /\ find_next(tasks, current_task, 0, task_count) = i
             /\ tasks[i].state = TASK_READY
             /\ tasks[i].delay_ticks = 0)
            => /\ current_task' = i
               /\ tasks'[i].state = TASK_RUNNING]_vars

\* C29: with at least one task registered and none of them Ready or
\* Running, a scheduler_yield leaves current_task and every control block
\* (state, times_scheduled) and context_switches unchanged and returns to
\* its caller.
C29_YieldNothingEligible ==
    [][(/\ task_count > 0
        /\ \A i \in Registered : ~Eligible(tasks[i])
        /\ AnyYield)
       => /\ current_task' = current_task
          /\ tasks' = tasks
          /\ debug_stats'.context_switches = debug_stats.context_switches
          /\ exec' = exec /\ exec_task' = exec_task]_vars

\* C30: a tick-handler invocation while scheduler_running is 0 or task_count
\* is 0 changes nothing: total_ticks, runtime_ticks, delay_ticks and the
\* states are as before.
C30_TickNoOpWhenStopped ==
    [][(timer0_compare_isr /\ (scheduler_running = 0 \/ task_count = 0))
       => UNCHANGED <<tasks, debug_stats, task_count, current_task,
                      scheduler_running>>]_vars

\* Before start, with interrupts enabled by main, a registered task carries
\* a delay counter set by a task_delay call: the ticks that arrive leave it.
C30_Witness ==
    /\ exec = "main" /\ pc = "idle"
    /\ scheduler_running = 0
    /\ sreg_i
    /\ task_count > 0
    /\ tasks[0].state = TASK_BLOCKED
    /\ tasks[0].delay_ticks = MaxDelay
    /\ debug_stats.total_ticks = 0

C32_TickAccounting ==
    [][(timer0_compare_isr /\ scheduler_running = 1 /\ task_count > 0)
       => /\ debug_stats'.total_ticks = debug_stats.total_ticks + 1
          /\ \A i \in Slots :
               tasks'[i].runtime_ticks =
                  IF i \in Registered /\ tasks[i].state = TASK_RUNNING
                  THEN tasks[i].runtime_ticks + 1
                  ELSE tasks[i].runtime_ticks]_vars

\* C33: voluntary_yields counts the scheduler_yield invocations since the
\* last init or stats reset.  Every invocation adds exactly 1, whether it
\* switches or not; init and the reset set the counter to 0; no other step
\* changes it; task_delay(0) makes no invocation; and task_delay(n), n > 0,
\* makes exactly one, as its last statement.
C33_YieldsCounted ==
    [][/\ AnyYield
          => debug_stats'.voluntary_yields = debug_stats.voluntary_yields + 1
       /\ (scheduler_init \/ scheduler_reset_debug_stats)
          => debug_stats'.voluntary_yields = 0
       /\ ~(AnyYield \/ scheduler_init \/ scheduler_reset_debug_stats)
          => debug_stats'.voluntary_yields = debug_stats.voluntary_yields
       /\ task_delay(0) => (pc' = "idle" /\ ~AnyYield)
       /\ \A n \in 1 .. MaxDelay :
            task_delay(n) => (pc' = "delay_set" /\ ~AnyYield)
       /\ pc = "delay_set" => (pc' = "delay_yield" /\ ~AnyYield)
       /\ (pc = "delay_yield" /\ pc' # pc) => (pc' = "idle" /\ AnyYield)]_vars

\* After a stats reset on a started scheduler one yield has been made that
\* did not switch: it is counted.
C33_Witness ==
    /\ stats_resets = 1
    /\ scheduler_running = 1
    /\ debug_stats.voluntary_yields = 1
    /\ debug_stats.context_switches = 0
    /\ \A i \in Registered : tasks[i].times_scheduled = 0

\* A step of non-interrupt code that the claim C34 lists: yield, delay,
\* suspend, resume, the exit handler.
C34_ListedStep ==
    \/ AnyYield
    \/ \E n \in DelayArgs : task_delay(n)
    \/ task_delay_block
    \/ \E id \in IdArgs : scheduler_suspend_task(id)
    \/ \E id \in IdArgs : scheduler_resume_task(id)
    \/ task_exit

\* C34: every write of a registered task's state or delay_ticks by yield,
\* delay, suspend, resume or the exit handler is made with the tick interrupt
\* disabled: either interrupts are off when the function is entered, or the
\* function has turned them off itself before the write (task_delay).
C34_WritesProtected ==
    [][(/\ C34_ListedStep
        /\ \E i \in Registered :
             \/ tasks'[i].state # tasks[i].state
             \/ tasks'[i].delay_ticks # tasks[i].delay_ticks)
       => \/ ~sreg_i
          \/ \E n \in DelayArgs : task_delay(n) /\ ~sreg_i']_vars

\* C35: in task_delay(n), n > 0, interrupts are off from before the write of
\* delay_ticks until after the write of state, so no tick runs between the
\* two; and the interrupt-enable flag after the protected section is the
\* one the call was entered with.
C35_DelayAtomic ==
    /\ [](pc = "delay_set" => ~sreg_i)
    /\ [][/\ \A n \in 1 .. MaxDelay :
               task_delay(n) => (sreg' = sreg_i /\ ~sreg_i'
                                 /\ pc' = "delay_set")
          /\ timer0_compare_isr => pc # "delay_set"
          /\ pc = "delay_set"
             => /\ task_delay_block
                /\ tasks'[current_task].state = TASK_BLOCKED
                /\ sreg_i' = sreg]_vars

\* A started task that had enabled interrupts has left the protected section
\* of task_delay(MaxDelay): it is Blocked with the full count, interrupts are
\* on again and no tick has run.
C35_Witness ==
    /\ pc = "delay_yield"
    /\ scheduler_running = 1
    /\ sreg_i
    /\ tasks[current_task].state = TASK_BLOCKED
    /\ tasks[current_task].delay_ticks = MaxDelay
    /\ debug_stats.total_ticks = 0

\* C36: scheduler_reset_debug_stats sets the three global counters and the
\* runtime_ticks and times_scheduled of every registered task to 0 in one
\* step (no tick in between), and leaves task_count, current_task,
\* scheduler_running, the interrupt flag and every state and delay_ticks
\* unchanged.
C36_ResetStats ==
    [][scheduler_reset_debug_stats =>
         /\ debug_stats' = ZeroStats
         /\ UNCHANGED <<task_count, current_task, scheduler_running, sreg_i>>
         /\ \A i \in Registered :
              tasks'[i] = [tasks[i] EXCEPT !.runtime_ticks = 0,
                                           !.times_scheduled = 0]]_vars

\* The stats were reset on a started scheduler after a switch to task 1 and
\* while a delay was pending: the counters are 0, current_task and the
\* countdown are as they were.
C36_Witness ==
    /\ stats_resets = 1
    /\ scheduler_running = 1
    /\ task_count = 2
    /\ current_task = 1
    /\ debug_stats = ZeroStats
    /\ \A i \in Registered : /\ tasks[i].runtime_ticks = 0
                             /\ tasks[i].times_scheduled = 0
    /\ \E i \in Registered : /\ tasks[i].state = TASK_BLOCKED
                             /\ tasks[i].delay_ticks > 0

\* C37: the task in every registered slot i has task_id = i, and no step
\* other than scheduler_init changes the task_id of a registered task or
\* decreases task_count.
C37_TaskIdIsSlot ==
    /\ [](\A i \in Registered : tasks[i].task_id = i)
    /\ [][~scheduler_init =>
            /\ task_count' >= task_count
            /\ \A i \in Registered : tasks'[i].task_id = tasks[i].task_id]_vars

\* A full registry on a started scheduler that has switched to its last
\* task: every slot still carries its own index.
C37_Witness ==
    /\ task_count = MAX_TASKS
    /\ scheduler_running = 1
    /\ current_task = MAX_TASKS - 1
    /\ tasks[current_task].state = TASK_RUNNING
    /\ \A i \in Registered : tasks[i].task_id = i

\* times_scheduled summed over slots 0 .. n-1.
RECURSIVE SumTimesScheduled(_)
SumTimesScheduled(n) ==
    IF n = 0
    THEN 0
    ELSE tasks[n - 1].times_scheduled + SumTimesScheduled(n - 1)

\* C38: the sum of times_scheduled over the registered tasks equals
\* context_switches, in every reachable state.
C38_SwitchesSumUp ==
    SumTimesScheduled(task_count) = debug_stats.context_switches

\* C39: a registered task whose state is Running is the task indexed by
\* current_task (its task_id equals current_task).
C39_RunningIsCurrent ==
    \A i \in Registered :
        tasks[i].state = TASK_RUNNING
        => (i = current_task /\ tasks[i].task_id = current_task)

\* Number of slots from cur forward (cyclically, among cnt registered
\* tasks) to slot t.
C40_Distance(cur, t, cnt) == (t + MAX_TASKS * cnt - cur) % cnt

\* C40: bounded waiting.  A Ready task T other than the current one is at
\* most task_count - 1 slots ahead of current_task; a scheduler_yield either
\* makes T current or moves current_task strictly closer to T; and no other
\* step (tick, suspend, resume, delay entry, exit) moves current_task.  So T
\* is current within task_count - 1 yields while it stays Ready.
C40_BoundedWaiting ==
    /\ [](\A t \in Registered :
            (t # current_task /\ tasks[t].state = TASK_READY)
            => /\ C40_Distance(current_task, t, task_count) >= 1
               /\ C40_Distance(current_task, t, task_count) <= task_count - 1)
    /\ [][\A t \in Registered :
            (t # current_task /\ tasks[t].state = TASK_READY)
            => /\ AnyYield
                  => \/ current_task' = t
                     \/ C40_Distance(current_task', t, task_count)
                           < C40_Distance(current_task, t, task_count)
               /\ ~(AnyYield \/ scheduler_init \/ scheduler_start)
                  => current_task' = current_task]_vars

=============================================================================
